---- MODULE Spec2Model ----
(***************************************************************************)
(* The ernesto reconciliation agent.  Three programs live in the           *)
(* repository and are modelled side by side, selected by prog:             *)
(*   "cronjob"  src/cronjob/main.go   one list pass, workers that resolve   *)
(*                                    and update (retry on conflict)        *)
(*   "cmd"      src/cmd/main.go       ticker loop, workers that resolve     *)
(*   "poller"   src/unnamed/part_001  ticker loop that only lists           *)
(* The cluster store and the git remote are the environment.               *)
(***************************************************************************)
EXTENDS Integers, Sequences, FiniteSets, TLC

VARIABLES
    prog,        \* which main() runs
    mainpc,      \* position of the main goroutine
    repos,       \* the []Repository the current pass ranges over
    idx,         \* index of the range loop over repos
    listErr,     \* err of the latest getRepos call
    wg,          \* sync.WaitGroup counter
    workers,     \* the processRepo goroutines launched so far
    store,       \* the GithubRepository records of namespace "tacos"
    signalled,   \* os.Interrupt has been delivered to the process
    cancelled,   \* cancel() of signal.NotifyContext has been called
    ticks        \* ticker firings handled so far

vars == <<prog, mainpc, repos, idx, listErr, wg, workers, store, signalled, cancelled, ticks>>

(***************************************************************************)
(* Bounds of the model                                                     *)
(***************************************************************************)
MaxTicks == 2          \* ticker firings handled in one run
MaxClock == 2          \* wall-clock readings are 0..MaxClock, in clock ticks
TicksPerSecond == 2    \* resolution of the clock below one second

(***************************************************************************)
(* Program constants                                                       *)
(***************************************************************************)
Steps == 5             \* retry.DefaultRetry.Steps: attempts of RetryOnConflict

Progs == {"cronjob", "cmd", "poller"}
Names == {"repo-a", "repo-b"}
Namespace == "tacos"
SpecKeys == {"repoUrl", "accessToken", "username"}
SyncTimeKey == "ernesto.0x42.in/last-sync-time"
CommitHashKey == "ernesto.0x42.in/commit-hash"
NoErr == "nil"

(***************************************************************************)
(* Records of the store.  A record is an untyped document; the parts the   *)
(* programs touch are kept: metadata.name/namespace/resourceVersion,       *)
(* metadata.annotations (absent, a map, or some other value), spec         *)
(* (absent, or a map whose three keys hold a string, hold another kind of  *)
(* value, or are absent) and, standing for every other field, other.       *)
(***************************************************************************)
NoRecord == [exists |-> FALSE]

GoodSpec == [kind |-> "map", fields |-> [k \in SpecKeys |-> "string"]]

BadSpecs ==
    {[kind |-> "absent", fields |-> [k \in SpecKeys |-> "absent"]]}
    \cup {[kind |-> "map", fields |-> [GoodSpec.fields EXCEPT ![k] = v]] :
            k \in SpecKeys, v \in {"absent", "number"}}

OldAnnotations == (SyncTimeKey :> 0) @@ (CommitHashKey :> "old")

AnnShapes ==
    { [kind |-> "absent", m |-> <<>>],
      [kind |-> "map", m |-> OldAnnotations],
      [kind |-> "scalar", m |-> <<>>] }

Record(n, spec, ann) ==
    [exists |-> TRUE, name |-> n, namespace |-> Namespace, rv |-> 1,
     other |-> 0, spec |-> spec, annotations |-> ann]

InitRecords(n) ==
    {NoRecord}
    \cup {Record(n, GoodSpec, a) : a \in AnnShapes}
    \cup {Record(n, s, [kind |-> "absent", m |-> <<>>]) : s \in BadSpecs}

URL(n) == IF n = "repo-a" THEN "https://example/a.git" ELSE "https://example/b.git"

\* the head commit of the remote behind a URL
RemoteHead(url) == IF url = "https://example/a.git" THEN "abc123" ELSE "def456"

Times == 0..MaxClock

\* time.Time.Format(time.RFC1123): the layout has whole seconds only
FormatRFC1123(t) == t \div TicksPerSecond

(***************************************************************************)
(* getRepos                                                                *)
(***************************************************************************)
NameOrder == <<"repo-a", "repo-b">>

\* the Items of the list call: the records that exist, in name order
ListedItems(st) ==
    SelectSeq([i \in 1..Len(NameOrder) |-> st[NameOrder[i]]], LAMBDA r : r.exists)

\* repo.Object["spec"].(map[string]any) and the three .(string) assertions
\* succeed on this record
AssertionsHold(rec) ==
    /\ rec.spec.kind = "map"
    /\ \A k \in SpecKeys : rec.spec.fields[k] = "string"

Repository(rec) ==
    [Name |-> rec.name, Namespace |-> rec.namespace, URL |-> URL(rec.name)]

\* rootCtx.Done() is closed
ctxDone == signalled \/ cancelled

\* getRepos of cmd and cronjob: the list call fails, or a type assertion
\* panics, or every item is decoded
getRepos(st, listOk) ==
    LET items == ListedItems(st) IN
    IF ~listOk
    THEN [outcome |-> "err", repos |-> <<>>]
    ELSE IF \E i \in 1..Len(items) : ~AssertionsHold(items[i])
    THEN [outcome |-> "panic", repos |-> <<>>]
    ELSE [outcome |-> "ok", repos |-> [i \in 1..Len(items) |-> Repository(items[i])]]

\* getRepos of the poller: fills repositories and returns nil, nil
getReposPoller(st, listOk) ==
    IF ~listOk
    THEN [outcome |-> "err", repos |-> <<>>]
    ELSE [outcome |-> "ok", repos |-> <<>>]

\* a list call made with a context that is already done fails
ListOutcomes == IF ctxDone THEN {FALSE} ELSE {TRUE, FALSE}

(***************************************************************************)
(* The workers: processRepo                                                *)
(***************************************************************************)
NewWorker(repo, tick) ==
    [repo |-> repo, tick |-> tick, pc |-> "resolve", hash |-> "", changeset |-> <<>>,
     attempt |-> 0, result |-> NoRecord, readAt |-> 0, retryErr |-> NoErr,
     wrote |-> 0]

\* goroutines run while the process lives
Alive == mainpc \notin {"exited", "panicked", "exit1"}

getLatestCommit(repo, remoteOk) ==
    IF remoteOk
    THEN [hash |-> RemoteHead(repo.URL), err |-> NoErr]
    ELSE [hash |-> "", err |-> "resolve"]

\* changeset of processRepo: the two (key, value) pairs, in order
Changeset(t, hash) ==
    << [key |-> SyncTimeKey, value |-> FormatRFC1123(t)],
       [key |-> CommitHashKey, value |-> hash] >>

\* a SetNestedField that creates the missing map and leaves it empty
SetNestedFieldCreateOnly(obj, value, key) ==
    CASE obj.annotations.kind = "scalar" ->
            [obj |-> obj, err |-> "structural"]
      [] obj.annotations.kind = "absent" ->
            [obj |-> [obj EXCEPT !.annotations = [kind |-> "map", m |-> <<>>]],
             err |-> NoErr]
      [] OTHER ->
            [obj |-> [obj EXCEPT !.annotations.m = (key :> value) @@ @], err |-> NoErr]

\* a SetNestedField that fails on a missing map
SetNestedFieldNoCreate(obj, value, key) ==
    IF obj.annotations.kind # "map"
    THEN [obj |-> obj, err |-> "structural"]
    ELSE [obj |-> [obj EXCEPT !.annotations.m = (key :> value) @@ @], err |-> NoErr]

\* unstructured.SetNestedField(obj, value, "metadata", "annotations", key):
\* metadata is a map in every object the store returns; annotations is
\* created when absent, entered when a map, and an error otherwise
SetNestedField(obj, value, key) ==
    CASE obj.annotations.kind = "scalar" ->
            [obj |-> obj, err |-> "structural"]
      [] obj.annotations.kind = "absent" ->
            [obj |-> [obj EXCEPT !.annotations = [kind |-> "map", m |-> (key :> value)]],
             err |-> NoErr]
      [] OTHER ->
            [obj |-> [obj EXCEPT !.annotations.m = (key :> value) @@ @], err |-> NoErr]

\* a loop that stops after the first change
ApplyFirstChange(obj, changes) ==
    IF changes = <<>>
    THEN [obj |-> obj, err |-> NoErr]
    ELSE SetNestedField(obj, Head(changes).value, Head(changes).key)

\* for _, change := range changeset { if err := SetNestedField(...); err != nil { return err } }
RECURSIVE ApplyChanges(_, _)
ApplyChanges(obj, changes) ==
    IF changes = <<>>
    THEN [obj |-> obj, err |-> NoErr]
    ELSE LET r == SetNestedField(obj, Head(changes).value, Head(changes).key) IN
         IF r.err # NoErr THEN r ELSE ApplyChanges(r.obj, Tail(changes))

\* a store that accepts every write, whatever version it carries
UpdateOutcomeUnversioned(stored, obj, storeOk) ==
    IF ~storeOk THEN "error"
    ELSE IF stored.exists THEN "ok"
    ELSE "conflict"

\* what the store answers to Update(result): the write is accepted only when
\* result carries the resourceVersion the stored record has now
UpdateOutcome(stored, obj, storeOk) ==
    IF ~storeOk THEN "error"
    ELSE IF stored.exists /\ obj.rv = stored.rv THEN "ok"
    ELSE "conflict"

\* a retry that runs the resolver and reads the clock again
RetryFromResolve == "resolve"

\* a retry that submits the object of the attempt before again
RetryFromUpdate == "update"

\* where RetryOnConflict resumes after a conflict: the closure runs again
\* from its first statement, the Get
RetryFrom == "get"

\* a budget that is one attempt too long
BudgetLeftOffByOne(attempt) == attempt <= Steps

\* wait.ExponentialBackoff under retry.DefaultRetry runs the closure at most
\* Steps times
BudgetLeft(attempt) == attempt < Steps

\* a wrapper that retries on every error
RetriableAlways(err) == TRUE

\* the retriable argument RetryOnConflict gives retry.OnError: errors.IsConflict
Retriable(err) == err = "conflict"

\* what retry.OnError does when the closure of worker me returns err # nil:
\* run it again if err is retriable and attempts are left, return err otherwise
AfterClosureError(me, err) ==
    IF Retriable(err) /\ BudgetLeft(me.attempt)
    THEN [me EXCEPT !.pc = RetryFrom, !.attempt = me.attempt + 1]
    ELSE [me EXCEPT !.pc = "finishing", !.retryErr = err]

\* a Get that names a fixed record
GetKeyFixed(repo) == "repo-a"

\* the name the closure gives Get: Get(ctx, repo.Name, ...) in repo.Namespace
GetKey(repo) == repo.Name

\* a worker that goes on after a failed getLatestCommit
AfterResolveErrorGoOn == "get"

\* where processRepo goes when getLatestCommit returned an error: it returns
AfterResolveError == "returned"

ReplaceWorker(w, rec) == [workers EXCEPT ![w] = rec]

\* a worker whose error ends the process
ExitOnWorkerError(pc) == "exit1"

\* what a worker's failed getLatestCommit does to main: slog.Error and
\* return touch nothing outside the worker
MainAfterWorkerError(pc) == pc

\* hash, err := getLatestCommit(ctx, repo); on error the function returns.
\* cronjob goes on to build the changeset and enter RetryOnConflict.
Resolve(w, remoteOk, t) ==
    /\ Alive
    /\ workers[w].pc = "resolve"
    /\ LET r == getLatestCommit(workers[w].repo, remoteOk) IN
       /\ workers' = ReplaceWorker(w,
          IF r.err # NoErr
          THEN [workers[w] EXCEPT !.pc = AfterResolveError]
          ELSE IF prog = "cmd"
          THEN [workers[w] EXCEPT !.pc = "finishing", !.hash = r.hash]
          ELSE [workers[w] EXCEPT !.pc = "get", !.hash = r.hash,
                                   !.changeset = Changeset(t, r.hash), !.attempt = 1])
       /\ mainpc' = IF r.err # NoErr THEN MainAfterWorkerError(mainpc) ELSE mainpc
    /\ UNCHANGED <<prog, repos, idx, listErr, wg, store, signalled, cancelled, ticks>>

\* the closure up to its Update call: Get, then the loop over the changeset
Get(w, getOk) ==
    /\ Alive
    /\ workers[w].pc = "get"
    /\ LET me == workers[w]
           stored == store[GetKey(me.repo)]
       IN  workers' = ReplaceWorker(w,
             IF ~getOk \/ ~stored.exists
             THEN AfterClosureError([me EXCEPT !.result = NoRecord], "get")
             ELSE LET a == ApplyChanges(stored, me.changeset)
                      read == [me EXCEPT !.result = a.obj, !.readAt = me.attempt]
                  IN  IF a.err # NoErr
                      THEN AfterClosureError(read, a.err)
                      ELSE [read EXCEPT !.pc = "update"])
    /\ UNCHANGED <<prog, mainpc, repos, idx, listErr, wg, store, signalled, cancelled, ticks>>

\* the Update call of the closure and what RetryOnConflict does with its error
Update(w, storeOk) ==
    /\ Alive
    /\ workers[w].pc = "update"
    /\ LET me == workers[w]
           target == me.result.name    \* Update addresses the record its object names
           stored == store[target]
           outcome == UpdateOutcome(stored, me.result, storeOk)
       IN  IF outcome = "ok"
           THEN /\ store' = [store EXCEPT ![target] =
                                  [me.result EXCEPT !.rv = stored.rv + 1]]
                /\ workers' = ReplaceWorker(w,
                        [me EXCEPT !.pc = "finishing", !.retryErr = NoErr,
                                   !.wrote = me.wrote + 1])
           ELSE /\ workers' = ReplaceWorker(w, AfterClosureError(me, outcome))
                /\ UNCHANGED store
    /\ UNCHANGED <<prog, mainpc, repos, idx, listErr, wg, signalled, cancelled, ticks>>

\* the end of processRepo: the deferred wg.Done() runs as the function returns
Finish(w) ==
    /\ Alive
    /\ workers[w].pc = "finishing"
    /\ workers' = ReplaceWorker(w, [workers[w] EXCEPT !.pc = "done"])
    /\ wg' = wg - 1
    /\ UNCHANGED <<prog, mainpc, repos, idx, listErr, store, signalled, cancelled, ticks>>

\* another writer of the store (another controller, an operator) changes a
\* field of a record while an Updater is between its Get and its Update
ConcurrentWrite(n) ==
    /\ Alive
    /\ store[n].exists
    /\ \E w \in 1..Len(workers) :
          /\ workers[w].pc = "update"
          /\ workers[w].repo.Name = n
          /\ workers[w].result.rv = store[n].rv
    /\ store' = [store EXCEPT ![n].rv = @ + 1, ![n].other = @ + 1]
    /\ UNCHANGED <<prog, mainpc, repos, idx, listErr, wg, workers, signalled, cancelled, ticks>>

(***************************************************************************)
(* main                                                                    *)
(***************************************************************************)
\* rest.InClusterConfig / dynamic.NewForConfig: on error os.Exit(1)
Startup(configOk) ==
    /\ mainpc = "start"
    /\ mainpc' = IF configOk THEN "list" ELSE "exit1"
    /\ UNCHANGED <<prog, repos, idx, listErr, wg, workers, store, signalled, cancelled, ticks>>

\* where main goes once a range loop over repos is over
AfterDispatch == IF prog = "cronjob" THEN "wait" ELSE "select"

\* the getRepos call made before the loop.  cronjob ranges over its result;
\* cmd and the poller only dump it.
StartupList(listOk) ==
    /\ mainpc = "list"
    /\ LET r == IF prog = "poller" THEN getReposPoller(store, listOk)
                ELSE getRepos(store, listOk)
       IN  /\ listErr' = r.outcome
           /\ repos' = r.repos
           /\ idx' = 1
           /\ mainpc' = CASE r.outcome = "panic" -> "panicked"
                          [] prog = "cronjob" /\ r.repos # <<>> -> "dispatch"
                          [] OTHER -> AfterDispatch
    /\ UNCHANGED <<prog, wg, workers, store, signalled, cancelled, ticks>>

\* a select whose ticker case waits for the workers of earlier ticks
TickGateJoin(counter) == counter = 0

\* what the case <-ticker.C asks of the WaitGroup before it runs: nothing,
\* wg.Wait() is called only after the loop
TickGate(counter) == TRUE

\* a tick whose list error ends the process
ExitAfterListError == "exit1"

\* where the loop goes when the tick's getRepos returned an error:
\* slog.Error, then the next iteration
AfterListError == "select"

\* case <-ticker.C: getRepos; on error log, otherwise range over the result
TickCase(listOk) ==
    /\ mainpc = "select"
    /\ TickGate(wg)
    /\ ticks < MaxTicks
    /\ ticks' = ticks + 1
    /\ LET r == IF prog = "poller" THEN getReposPoller(store, listOk)
                ELSE getRepos(store, listOk)
       IN  /\ listErr' = r.outcome
           /\ repos' = r.repos
           /\ idx' = 1
           /\ mainpc' = CASE r.outcome = "panic" -> "panicked"
                          [] r.outcome = "err" -> AfterListError
                          [] prog = "cmd" /\ r.repos # <<>> -> "dispatch"
                          [] OTHER -> "select"
    /\ UNCHANGED <<prog, wg, workers, store, signalled, cancelled>>

\* a range loop that is left after its first iteration
RangeDoneEarly(i, rs) == TRUE

\* the range loop over rs is over after iteration i
RangeDone(i, rs) == i = Len(rs)

\* one iteration of the range loop: wg.Add(1); go processRepo(ctx, wg, repo)
Dispatch ==
    /\ mainpc = "dispatch"
    /\ idx <= Len(repos)
    /\ wg' = wg + 1
    /\ workers' = Append(workers, NewWorker(repos[idx], ticks))
    /\ idx' = idx + 1
    /\ mainpc' = IF RangeDone(idx, repos) THEN AfterDispatch ELSE "dispatch"
    /\ UNCHANGED <<prog, repos, listErr, store, signalled, cancelled, ticks>>

\* where the loop goes after the case <-rootCtx.Done(): cmd has break Loop,
\* the poller has no break and selects again
AfterDoneCase == IF prog = "cmd" THEN "wait" ELSE "select"

\* case <-rootCtx.Done(): cancel()
DoneCase ==
    /\ mainpc = "select"
    /\ ctxDone
    /\ cancelled' = TRUE
    /\ mainpc' = AfterDoneCase
    /\ UNCHANGED <<prog, repos, idx, listErr, wg, workers, store, signalled, ticks>>

\* a main that does not wait
WaitSkipped(counter) == TRUE

\* wg.Wait() returns when the counter is zero
WaitReleased(counter) == counter = 0

\* wg.Wait(); main returns
WaitAll ==
    /\ mainpc = "wait"
    /\ WaitReleased(wg)
    /\ mainpc' = "exited"
    /\ UNCHANGED <<prog, repos, idx, listErr, wg, workers, store, signalled, cancelled, ticks>>

\* os.Interrupt reaches the process: signal.NotifyContext closes rootCtx.Done()
Interrupt ==
    /\ prog \in {"cmd", "poller"}
    /\ Alive
    /\ ~signalled
    /\ ~cancelled
    /\ signalled' = TRUE
    /\ UNCHANGED <<prog, mainpc, repos, idx, listErr, wg, workers, store, cancelled, ticks>>

(***************************************************************************)
(* Specification                                                           *)
(***************************************************************************)
Init ==
    /\ prog \in Progs
    /\ mainpc = "start"
    /\ repos = <<>>
    /\ idx = 1
    /\ listErr = NoErr
    /\ wg = 0
    /\ workers = <<>>
    /\ store \in {s \in [Names -> UNION {InitRecords(n) : n \in Names}] :
                    \A n \in Names : s[n] \in InitRecords(n)}
    /\ signalled = FALSE
    /\ cancelled = FALSE
    /\ ticks = 0

Next ==
    \/ \E ok \in BOOLEAN : Startup(ok)
    \/ \E ok \in ListOutcomes : StartupList(ok)
    \/ \E ok \in ListOutcomes : TickCase(ok)
    \/ Dispatch
    \/ DoneCase
    \/ WaitAll
    \/ Interrupt
    \/ \E w \in 1..Len(workers), ok \in BOOLEAN, t \in Times : Resolve(w, ok, t)
    \/ \E w \in 1..Len(workers), ok \in BOOLEAN : Get(w, ok)
    \/ \E w \in 1..Len(workers), ok \in BOOLEAN : Update(w, ok)
    \/ \E w \in 1..Len(workers) : Finish(w)
    \/ \E n \in Names : ConcurrentWrite(n)

Spec == Init /\ [][Next]_vars

WorkerStep(w) ==
    \/ \E ok \in BOOLEAN, t \in Times : Resolve(w, ok, t)
    \/ \E ok \in BOOLEAN : Get(w, ok)
    \/ \E ok \in BOOLEAN : Update(w, ok)
    \/ Finish(w)

WorkerIds == 1..Len(workers)
Ended(w) == workers[w].pc \in {"done", "returned"}
Failed(w) == workers[w].pc = "returned" \/ workers[w].retryErr # NoErr
RecordOf(w) == store[workers[w].repo.Name]

\* the annotations map the changeset of worker w produces on a record that
\* has no other annotation of the agent
Written(w) ==
    (workers[w].changeset[1].key :> workers[w].changeset[1].value)
    @@ (workers[w].changeset[2].key :> workers[w].changeset[2].value)

(***************************************************************************)
(* Properties                                                              *)
(***************************************************************************)

\* C1: conflict safety of the Updater.  A step of a worker never changes a
\* field of a record outside the annotations: a write of a worker is accepted
\* only when the object it submits was read at the version the record has
\* now, so it holds every change another writer has made (other is the same
\* in the object and in the store); and a worker ends with a conflict error
\* only when its attempts are used up.
ConflictSafety ==
    [][\A w \in WorkerIds :
          /\ workers'[w] # workers[w] =>
                \A n \in Names : store[n].exists => store'[n].other = store[n].other
          /\ workers'[w].wrote > workers[w].wrote =>
                /\ workers[w].result.rv = RecordOf(w).rv
                /\ workers[w].result.other = RecordOf(w).other
          /\ workers'[w].retryErr = "conflict" => workers[w].attempt = Steps]_vars

\* a worker has written on a later attempt, after another writer's change
\* that the stored record still holds
ConflictSafetyWitness ==
    \E w \in WorkerIds :
        /\ workers[w].wrote = 1
        /\ workers[w].attempt >= 2
        /\ RecordOf(w).other >= 1
        /\ RecordOf(w).annotations.m = Written(w)

\* C2: no Update of a stale read.  Whenever a worker is about to call Update,
\* the object it holds was returned by the Get of the attempt it is in.
UpdateCarriesFreshRead ==
    \A w \in WorkerIds :
        workers[w].pc = "update" =>
            /\ workers[w].readAt = workers[w].attempt
            /\ workers[w].result.exists

\* a worker is about to call Update on a retry
UpdateCarriesFreshReadWitness ==
    \E w \in WorkerIds :
        /\ workers[w].pc = "update"
        /\ workers[w].attempt >= 2
        /\ workers[w].readAt = workers[w].attempt

\* C3: bounded retry.  A worker makes at most Steps attempts; a worker whose
\* every Update met a conflict ends after exactly Steps attempts with the
\* conflict error, having written nothing: the annotations of its record are
\* the ones the record had at the start.
BoundedRetry ==
    \A w \in WorkerIds :
        /\ workers[w].attempt <= Steps
        /\ workers[w].retryErr = "conflict" =>
              /\ workers[w].pc \in {"finishing", "done"}
              /\ workers[w].attempt = Steps
              /\ workers[w].wrote = 0
              /\ RecordOf(w).annotations \in AnnShapes

\* a worker has ended on the conflict error
BoundedRetryWitness ==
    \E w \in WorkerIds :
        /\ workers[w].pc = "done"
        /\ workers[w].retryErr = "conflict"
        /\ workers[w].attempt = Steps
        /\ RecordOf(w).other >= Steps

\* C4: isolation between the workers of one pass.  When a worker of a pass
\* has failed (its resolver or its Updater returned an error), every other
\* worker of that pass that has not ended can still take its next step.
WorkerIsolation ==
    \A a \in WorkerIds : \A b \in WorkerIds :
        ( /\ a # b
          /\ workers[a].tick = workers[b].tick
          /\ Failed(a)
          /\ ~Ended(b) ) => ENABLED WorkerStep(b)

\* in one pass, a worker's resolver has failed and another worker has
\* written its record and ended
WorkerIsolationWitness ==
    \E a \in WorkerIds : \E b \in WorkerIds :
        /\ a < b
        /\ workers[a].tick = workers[b].tick
        /\ workers[a].pc = "returned"
        /\ workers[b].pc = "done"
        /\ workers[b].wrote = 1
        /\ RecordOf(b).annotations.m[CommitHashKey] = workers[b].hash

\* C5: end-to-end reconciliation, read in the claim's favour: a worker that
\* has ended, whose resolver returned a commit id and whose Updater reported
\* no error at all, leaves its record with the commit-hash annotation equal
\* to that commit id and a last-sync-time annotation.
EndToEndReconciliation ==
    \A w \in WorkerIds :
        ( /\ workers[w].pc = "done"
          /\ workers[w].hash # ""
          /\ workers[w].retryErr = NoErr ) =>
            /\ RecordOf(w).annotations.kind = "map"
            /\ DOMAIN RecordOf(w).annotations.m = {SyncTimeKey, CommitHashKey}
            /\ RecordOf(w).annotations.m[CommitHashKey] = workers[w].hash

\* C6: a list error on a tick is cycle-level.  The step that handles a tick
\* whose getRepos returns an error launches no worker, leaves the WaitGroup
\* alone and is back at the select, with the process running.
ListerFailureIsCycleLevel ==
    [][(mainpc = "select" /\ ticks' = ticks + 1 /\ listErr' = "err") =>
          /\ workers' = workers
          /\ wg' = wg
          /\ mainpc' = "select"]_vars

\* cmd is back at the select after a tick whose list failed, no interrupt
\* has come, and the next tick can be handled with a list that succeeds
ListerFailureIsCycleLevelWitness ==
    /\ prog = "cmd"
    /\ ticks = 1
    /\ listErr = "err"
    /\ mainpc = "select"
    /\ ~ctxDone
    /\ workers = <<>>
    /\ ENABLED TickCase(TRUE)

\* C7: a malformed record makes the pass fail with an error value.  Once cmd
\* or cronjob has listed a store that holds a record whose spec is not a map
\* or lacks a string under repoUrl, accessToken or username, the pass has
\* returned an error and the process is running.
DecodeFailureIsAnError ==
    ( /\ prog \in {"cmd", "cronjob"}
      /\ mainpc \notin {"start", "list", "exit1"}
      /\ \E n \in Names : store[n].exists /\ ~AssertionsHold(store[n]) )
    => (listErr = "err" /\ mainpc # "panicked")

\* C8: the loop is left on cancellation.  Once the case <-rootCtx.Done() has
\* run (cancel() has been called), main is out of the tick/cancel loop.
LoopLeftOnCancel ==
    cancelled => mainpc \in {"wait", "exited"}

\* C9: join-all barrier.  main has returned only if every worker launched
\* has ended.
JoinAllBarrier ==
    mainpc = "exited" => \A w \in WorkerIds : Ended(w)

\* main has returned after two workers were launched and ended
JoinAllBarrierWitness ==
    /\ mainpc = "exited"
    /\ Len(workers) >= 2
    /\ \A w \in WorkerIds : workers[w].pc = "done"

\* C10: no partial changeset is written.  The object a worker is about to
\* submit holds both entries of its changeset; a worker whose changeset could
\* not be applied never reaches the Update of that attempt; and the agent's
\* two annotations of a stored record are those the record started with or
\* the two of one worker's changeset.
NoPartialChangeset ==
    /\ \A w \in WorkerIds :
          /\ workers[w].pc = "update" =>
                /\ workers[w].result.annotations.kind = "map"
                /\ workers[w].result.annotations.m = Written(w)
          /\ workers[w].retryErr = "structural" =>
                /\ workers[w].pc \in {"finishing", "done"}
                /\ workers[w].wrote = 0
    /\ \A n \in Names :
          store[n].exists =>
             \/ store[n].annotations \in AnnShapes
             \/ \E w \in WorkerIds :
                   /\ workers[w].repo.Name = n
                   /\ workers[w].wrote >= 1
                   /\ store[n].annotations = [kind |-> "map", m |-> Written(w)]

\* one worker has written both annotations, another has ended on a
\* changeset that could not be applied
NoPartialChangesetWitness ==
    \E a \in WorkerIds : \E b \in WorkerIds :
        /\ workers[a].wrote = 1
        /\ RecordOf(a).annotations.m = Written(a)
        /\ workers[b].pc = "done"
        /\ workers[b].retryErr = "structural"

\* C11: the changeset is idempotent.  For the changeset of any worker and any
\* record of the store on which it can be applied, applying it to the result
\* of applying it gives that same result; in particular the object a worker
\* is about to submit is unchanged by applying its changeset once more.
ChangesetIdempotent ==
    \A w \in WorkerIds :
        workers[w].changeset # <<>> =>
            /\ \A n \in Names :
                  store[n].exists =>
                     LET once == ApplyChanges(store[n], workers[w].changeset) IN
                     once.err = NoErr =>
                        ApplyChanges(once.obj, workers[w].changeset) = once
            /\ workers[w].pc = "update" =>
                  ApplyChanges(workers[w].result, workers[w].changeset).obj
                     = workers[w].result

\* a worker has written its changeset to a record that had no annotations
\* map or an older pair, and applying the changeset to the stored record
\* again changes nothing
ChangesetIdempotentWitness ==
    \E w \in WorkerIds :
        /\ workers[w].wrote = 1
        /\ RecordOf(w).annotations.m = Written(w)
        /\ ApplyChanges(RecordOf(w), workers[w].changeset).obj = RecordOf(w)

\* C12: path merge.  Applying a worker's changeset to a record whose
\* annotations map is absent succeeds and yields a map that holds exactly the
\* two annotation keys with the changeset's values, every other field being
\* as in the record; and the object a worker is about to submit differs from
\* the record it read in nothing but the annotations.
PathMerge ==
    \A w \in WorkerIds :
        workers[w].changeset # <<>> =>
            /\ \A n \in Names :
                  (store[n].exists /\ store[n].annotations.kind = "absent") =>
                     LET a == ApplyChanges(store[n], workers[w].changeset) IN
                     /\ a.err = NoErr
                     /\ a.obj.annotations = [kind |-> "map", m |-> Written(w)]
                     /\ [a.obj EXCEPT !.annotations = store[n].annotations] = store[n]
            /\ (workers[w].pc = "update" /\ workers[w].result.rv = RecordOf(w).rv) =>
                  [workers[w].result EXCEPT !.annotations = RecordOf(w).annotations]
                     = RecordOf(w)

\* a worker holds the object made from a record without annotations map that
\* another writer had changed before: the map is there with both keys and
\* the other writer's change is kept
PathMergeWitness ==
    \E w \in WorkerIds :
        /\ workers[w].pc = "update"
        /\ RecordOf(w).annotations.kind = "absent"
        /\ RecordOf(w).other >= 1
        /\ workers[w].result.rv = RecordOf(w).rv
        /\ workers[w].result.other = RecordOf(w).other
        /\ workers[w].result.annotations = [kind |-> "map", m |-> Written(w)]

\* the workers launched by the pass numbered t (0 is the pass before the loop)
LaunchedIn(t) == {w \in WorkerIds : workers[w].tick = t}

\* C13: one worker per repository returned.  In cmd after a tick, and in
\* cronjob after its pass, whose getRepos returned no error, the workers
\* launched by that pass are as many as the repositories returned, one for
\* each of them (while the range loop runs: one for each of the idx - 1
\* repositories passed); when none was returned, none is launched.
OneWorkerPerRepository ==
    ( /\ prog \in {"cmd", "cronjob"}
      /\ prog = "cmd" => ticks >= 1
      /\ listErr = "ok"
      /\ mainpc \notin {"start", "list"} )
    => LET n == IF mainpc = "dispatch" THEN idx - 1 ELSE Len(repos) IN
       /\ Cardinality(LaunchedIn(ticks)) = n
       /\ \A i \in 1..n :
             Cardinality({w \in LaunchedIn(ticks) : workers[w].repo = repos[i]}) = 1

\* cmd is back at the select after its second tick, which returned two
\* repositories and launched two workers
OneWorkerPerRepositoryWitness ==
    /\ prog = "cmd"
    /\ ticks = 2
    /\ listErr = "ok"
    /\ mainpc = "select"
    /\ Len(repos) = 2
    /\ Cardinality(LaunchedIn(2)) = 2
    /\ Cardinality(LaunchedIn(1)) = 2

\* C14: the Updater retries only on a conflict.  A worker starts a further
\* attempt only from an Update whose object no longer has the version of the
\* stored record; the step on which a Get fails, the changeset cannot be
\* applied or an Update fails otherwise ends the Updater in the attempt it is
\* in, with that error and without a write; and a worker whose Updater has
\* ended reads and writes nothing more.
RetryOnlyOnConflict ==
    [][\A w \in WorkerIds :
          /\ (workers[w].attempt >= 1 /\ workers'[w].attempt > workers[w].attempt) =>
                /\ workers[w].pc = "update"
                /\ workers[w].result.rv # RecordOf(w).rv
          /\ ( /\ workers'[w] # workers[w]
               /\ workers'[w].retryErr \in {"get", "structural", "error"} ) =>
                /\ workers'[w].pc \in {"finishing", "done"}
                /\ workers'[w].attempt = workers[w].attempt
                /\ store' = store
          /\ workers[w].pc \in {"finishing", "done"} =>
                /\ workers'[w].pc \in {"finishing", "done"}
                /\ workers'[w].attempt = workers[w].attempt
                /\ workers'[w].result = workers[w].result
                /\ workers'[w].wrote = workers[w].wrote
                /\ workers'[w].retryErr = workers[w].retryErr]_vars

\* one worker has ended on a failed Get of a retry, another on an Update
\* that failed without a conflict
RetryOnlyOnConflictWitness ==
    \E a \in WorkerIds : \E b \in WorkerIds :
        /\ workers[a].pc = "done"
        /\ workers[a].retryErr = "get"
        /\ workers[a].attempt >= 2
        /\ workers[b].pc = "done"
        /\ workers[b].retryErr = "error"
        /\ workers[b].wrote = 0

\* C15: resolver before Updater.  A worker that is in, or has been in, its
\* retry loop holds the commit id the resolver returned for its repository;
\* a worker whose resolver failed has returned without an attempt, a read or
\* a write, and in cronjob, where it is the only worker of its record, the
\* record's annotations are the ones it started with.
ResolverBeforeUpdater ==
    \A w \in WorkerIds :
        /\ ( \/ workers[w].pc \in {"get", "update"}
             \/ workers[w].attempt >= 1
             \/ workers[w].result.exists
             \/ workers[w].wrote >= 1 ) =>
              /\ workers[w].hash # ""
              /\ workers[w].hash = RemoteHead(workers[w].repo.URL)
        /\ workers[w].pc = "returned" =>
              /\ workers[w].hash = ""
              /\ workers[w].attempt = 0
              /\ ~workers[w].result.exists
              /\ workers[w].wrote = 0
              /\ prog = "cronjob" => RecordOf(w).annotations \in AnnShapes

\* in cronjob one worker has returned on a resolver failure while another,
\* its commit id resolved, is about to call Update
ResolverBeforeUpdaterWitness ==
    \E a \in WorkerIds : \E b \in WorkerIds :
        /\ prog = "cronjob"
        /\ workers[a].pc = "returned"
        /\ RecordOf(a).annotations \in AnnShapes
        /\ workers[b].pc = "update"
        /\ workers[b].hash = RemoteHead(workers[b].repo.URL)

\* C16: the changeset is stable across retries.  A worker that has left its
\* resolver call never returns to it, and its commit id and changeset never
\* change afterwards; whatever the attempt, the object it is about to submit
\* and the annotations a write of it leaves in the store hold the two values
\* of that changeset.
ChangesetStable ==
    [][\A w \in WorkerIds :
          /\ workers[w].pc # "resolve" =>
                /\ workers'[w].pc # "resolve"
                /\ workers'[w].hash = workers[w].hash
                /\ workers'[w].changeset = workers[w].changeset
          /\ workers[w].pc = "update" =>
                workers[w].result.annotations.m = Written(w)
          /\ workers'[w].wrote > workers[w].wrote =>
                store'[workers[w].repo.Name].annotations.m = Written(w)]_vars

\* a worker has written on its third or a later attempt, and the stored
\* annotations are the two values of its changeset
ChangesetStableWitness ==
    \E w \in WorkerIds :
        /\ workers[w].wrote = 1
        /\ workers[w].attempt >= 3
        /\ workers[w].changeset[2].value = workers[w].hash
        /\ RecordOf(w).annotations.m = Written(w)

\* C17: ticks are not gated on earlier workers.  Whenever cmd is at its
\* select and the ticker can still fire, the tick can be handled, whatever
\* the workers of earlier ticks are doing.
TicksNotGated ==
    (prog = "cmd" /\ mainpc = "select" /\ ticks < MaxTicks) =>
        ENABLED (\E ok \in ListOutcomes : TickCase(ok))

\* cmd is at its select with workers of two ticks for the same repository
\* both still in their resolver call
TicksNotGatedWitness ==
    /\ prog = "cmd"
    /\ mainpc = "select"
    /\ \E a \in WorkerIds : \E b \in WorkerIds :
          /\ workers[a].tick < workers[b].tick
          /\ workers[a].repo.Name = workers[b].repo.Name
          /\ workers[a].pc = "resolve"
          /\ workers[b].pc = "resolve"

\* C18: the pass before the loop dispatches.  Once cmd or cronjob has made
\* its first getRepos call without an error, and before any tick is handled,
\* the workers launched by that pass are as many as the repositories it
\* returned.
StartupPassDispatches ==
    ( /\ prog \in {"cmd", "cronjob"}
      /\ ticks = 0
      /\ listErr = "ok"
      /\ mainpc \in {"select", "wait", "exited"} )
    => Cardinality(LaunchedIn(0)) = Len(repos)

\* C19: the WaitGroup is balanced.  When every worker launched has ended,
\* the counter of the WaitGroup is zero, so that wg.Wait() returns.
WaitGroupBalanced ==
    (\A w \in WorkerIds : Ended(w)) => wg = 0

\* C20: a worker reads and writes the record of its own repository.  The
\* object a worker holds is the record named by the Repository it was
\* launched with, the workers of one pass were launched with different
\* repositories, each a listed one, and a commit-hash annotation in the store
\* is the one the record started with or the head of that record's own
\* remote.
WorkerOwnsItsRecord ==
    /\ \A w \in WorkerIds :
          /\ workers[w].repo \in {Repository(store[n]) : n \in {m \in Names : store[m].exists}}
          /\ workers[w].result.exists =>
                /\ workers[w].result.name = workers[w].repo.Name
                /\ workers[w].result.namespace = workers[w].repo.Namespace
          /\ \A v \in WorkerIds :
                (v # w /\ workers[v].tick = workers[w].tick) =>
                    workers[v].repo.Name # workers[w].repo.Name
    /\ \A n \in Names :
          ( /\ store[n].exists
            /\ store[n].annotations.kind = "map"
            /\ CommitHashKey \in DOMAIN store[n].annotations.m ) =>
              store[n].annotations.m[CommitHashKey] \in {"old", RemoteHead(URL(n))}

\* two workers of one pass have each written the head of their own remote
\* to their own record
WorkerOwnsItsRecordWitness ==
    /\ \A n \in Names :
          /\ store[n].exists
          /\ store[n].annotations.kind = "map"
          /\ store[n].annotations.m[CommitHashKey] = RemoteHead(URL(n))
    /\ Len(workers) = 2
    /\ \A w \in WorkerIds : workers[w].wrote = 1

====
